---- MODULE Spec2Model ----
(***************************************************************************)
(* SaveKnight Desktop: the App component of src/src/App.tsx as a state     *)
(* machine.  The React state of the component is the state; every handler  *)
(* and every continuation after an `await invoke(...)` is one action.  A   *)
(* handler that captured state in its closure (handleUpload) carries that  *)
(* captured copy with it.  The backend behind `invoke` is the environment: *)
(* every call may resolve or reject, and calls that return backend state   *)
(* (get_auth_status, get_game_profiles) take their snapshot when the       *)
(* backend processes them and deliver it later.                            *)
(***************************************************************************)
EXTENDS Integers, Sequences, FiniteSets, TLC

\* ------------------------------------------------------------------------
\* Bounds of the model
\* ------------------------------------------------------------------------
\* get_game_profiles calls that may be outstanding at once
MaxLoads == 1
\* scan_games calls that may be outstanding at once
MaxScans == 2
\* logout calls that may be outstanding at once
MaxLogouts == 2
\* profiles the remote service creates in one run
MaxProfiles == 3
\* user inputs (clicks, typing) and tray events in one run
MaxInputs == 4
\* operations that may ask for the device token concurrently
NCallers == 2
\* refresh calls issued to the remote service in one run
MaxRefreshes == 2

\* ------------------------------------------------------------------------
\* Strings: names are sequences of characters so that toLowerCase and trim
\* compute what the JavaScript methods compute
\* ------------------------------------------------------------------------
UpperChars == <<"A","B","C","D","E","F","G","H","I","J","K","L","M",
                "N","O","P","Q","R","S","T","U","V","W","X","Y","Z">>
LowerChars == <<"a","b","c","d","e","f","g","h","i","j","k","l","m",
                "n","o","p","q","r","s","t","u","v","w","x","y","z">>

LowerChar(c) ==
  IF \E k \in DOMAIN UpperChars : UpperChars[k] = c
  THEN LowerChars[CHOOSE k \in DOMAIN UpperChars : UpperChars[k] = c]
  ELSE c

toLowerCase(s) == [k \in DOMAIN s |-> LowerChar(s[k])]

RECURSIVE trimStart(_)
trimStart(s) ==
  IF s # <<>> /\ Head(s) = " " THEN trimStart(Tail(s)) ELSE s

RECURSIVE trimEnd(_)
trimEnd(s) ==
  IF s # <<>> /\ s[Len(s)] = " " THEN trimEnd(SubSeq(s, 1, Len(s) - 1)) ELSE s

trim(s) == trimEnd(trimStart(s))

\* ------------------------------------------------------------------------
\* The data the model runs on
\* ------------------------------------------------------------------------
Doom  == <<"D","o","o","m">>
DOOM  == <<"D","O","O","M">>
Hades == <<"H","a","d","e","s">>

\* the game names of the manifest, in manifest order
Manifest == <<Doom, DOOM, Hades>>

RECURSIVE SubSeqs(_)
SubSeqs(s) ==
  IF s = <<>> THEN {<<>>}
  ELSE LET rest == SubSeqs(Tail(s))
       IN  rest \cup {<<Head(s)>> \o r : r \in rest}

\* what scan_games can return: the manifest's games that have saves on disk
ScanResults == SubSeqs(Manifest)

\* the profiles the account can hold on the service when the application
\* starts (GET /api/devices/game-profiles)
AccountProfiles == {<<>>, <<[id |-> 1, name |-> Doom, platform |-> "PC"]>>}

\* what the user can type into the two inputs of the login form
CookieInputs == {<<>>, <<" ">>, <<"s","i","d">>}
DeviceInputs == {<<>>}

\* the device name the effect derives from the user agent (line 65); the
\* application is a Windows application
WindowsPC == <<"W","i","n","d","o","w","s"," ","P","C">>
Hostnames == {WindowsPC}

Null == "null"

\* AuthStatus (interface, lines 21-26)
AuthStatus(auth, dev, mail, plan) ==
  [is_authenticated |-> auth, device_id |-> dev, user_email |-> mail, plan_name |-> plan]

\* what the backend reports for the signed-in device
AuthedStatus == AuthStatus(TRUE, "device-1", "user@example.com", "Free")

\* what the backend reports without a valid device token, and what
\* handleLogout sets (line 129)
LoggedOutStatus == AuthStatus(FALSE, Null, Null, Null)

\* GameProfile (interface, lines 28-32)
GameProfile(id, name) == [id |-> id, name |-> name, platform |-> "PC"]

\* the error and successMessage strings: kind names the text, n the number in it
Msg(kind, n) == [kind |-> kind, n |-> n]
NoMsg == Msg("null", 0)

Range(s) == {s[k] : k \in DOMAIN s}

RemoveAt(s, k) == SubSeq(s, 1, k - 1) \o SubSeq(s, k + 1, Len(s))

\* ------------------------------------------------------------------------
\* State
\* ------------------------------------------------------------------------
VARIABLES
  authStatus,      \* <<>> for null, <<status>> otherwise
  detectedGames,   \* sequence of game names
  selectedGames,   \* set of game names
  gameProfiles,    \* sequence of GameProfile
  isScanning,
  isUploading,
  activeTab,
  error,
  successMessage,
  sessionCookie,
  deviceName,
  isLoggingIn,
  showLoginForm,
  mounted,         \* the effect of lines 58-71 has run
  authCheck,       \* the get_auth_status call of checkAuth
  loads,           \* outstanding get_game_profiles calls
  loginCall,       \* a login call is outstanding
  logouts,         \* number of outstanding logout calls
  scans,           \* outstanding scan_games calls in the order they were
                   \* started: TRUE for the most recently started one
  up,              \* the running handleUpload: its closure, locals and position
  srvAuthed,       \* backend: a valid device token is stored
  srvProfiles,     \* backend: the profiles of the account
  loggedIn,        \* history: a login succeeded and no logout since
  sessionStart,    \* history: number of srvProfiles when the session began
  inputs,          \* history: number of user inputs and tray events so far
  lastEvent,       \* history: the handler or continuation that ran last
  scanResult,      \* history: the games of the scan_games reply that led to
                   \* this state, <<>> after any other step
  scanner,         \* the save scanner of the core: file system and result
  session          \* the auth session of the core: token, refresh, callers

vars == <<authStatus, detectedGames, selectedGames, gameProfiles, isScanning,
          isUploading, activeTab, error, successMessage, sessionCookie,
          deviceName, isLoggingIn, showLoginForm, mounted, authCheck, loads,
          loginCall, logouts, scans, up, srvAuthed, srvProfiles, loggedIn,
          sessionStart, inputs, lastEvent, scanResult, scanner, session>>

\* authStatus?.is_authenticated (line 237)
IsAuthenticated(st) == st # <<>> /\ st[1].is_authenticated

\* the view that is rendered (line 237)
AuthenticatedView == IsAuthenticated(authStatus)

\* handleUpload when it is not running
UpIdle ==
  [pc |-> "idle", games |-> <<>>, i |-> 0, snap |-> <<>>, profileId |-> 0,
   success |-> 0, fail |-> 0, outcomes |-> <<>>, nsel |-> 0, done |-> FALSE]

AuthCheckIdle == [pc |-> "idle", status |-> LoggedOutStatus]

\* ------------------------------------------------------------------------
\* The core behind the commands: Scanner and AuthSession
\* ------------------------------------------------------------------------
\* ManifestEntry.path_patterns: the patterns of a game, each named by the
\* path it resolves to
path_patterns(game_name) ==
  IF game_name = Doom THEN <<"appdata/Doom", "savedgames/Doom">>
  ELSE IF game_name = DOOM THEN <<"documents/DOOM">>
  ELSE <<"appdata/Hades/saves">>

\* the file systems a scan can meet: the set of the paths that exist
FileSystems == SUBSET UNION {Range(path_patterns(g)) : g \in Range(Manifest)}

\* scan_path: the DetectedSavePath of one resolved path
scan_path(pattern, files) ==
  [pattern |-> pattern, resolved_path |-> pattern, exists |-> pattern \in files]


\* ScanEntry with a defect: a game without an existing path is kept
ScanEntryKeepsAbsent(game_name, files) ==
  LET patterns == path_patterns(game_name)
      paths == [k \in DOMAIN patterns |-> scan_path(patterns[k], files)]
  IN  <<[name |-> game_name, paths |-> paths]>>

\* the scan of one manifest entry: no game when none of its paths exists
ScanEntry(game_name, files) ==
  LET patterns == path_patterns(game_name)
      paths == [k \in DOMAIN patterns |-> scan_path(patterns[k], files)]
  IN  IF \E k \in DOMAIN paths : paths[k].exists
      THEN <<[name |-> game_name, paths |-> paths]>>
      ELSE <<>>

\* scan(entries): the detected games in the order of the manifest
RECURSIVE scan(_, _)
scan(entries, files) ==
  IF entries = <<>> THEN <<>>
  ELSE ScanEntry(Head(entries), files) \o scan(Tail(entries), files)

\* the names of a list of detected games
GameNames(games) == [k \in DOMAIN games |-> games[k].name]

ScannerIdle == [files |-> {}, result |-> <<>>]

\* the operations that need the device token
Callers == 1..NCallers

\* AuthSession with the cached token fresh and no operation running
SessionIdle ==
  [token |-> 0, expiring |-> FALSE, inFlight |-> 0, issued |-> 0,
   callers |-> [c \in Callers |-> [pc |-> "idle", token |-> 0]]]


InitApp ==
  /\ authStatus = <<>>
  /\ detectedGames = <<>>
  /\ selectedGames = {}
  /\ gameProfiles = <<>>
  /\ isScanning = FALSE
  /\ isUploading = FALSE
  /\ activeTab = "games"
  /\ error = NoMsg
  /\ successMessage = NoMsg
  /\ sessionCookie = <<>>
  /\ deviceName = <<>>
  /\ isLoggingIn = FALSE
  /\ showLoginForm = FALSE
  /\ mounted = FALSE
  /\ authCheck = AuthCheckIdle
  /\ loads = <<>>
  /\ loginCall = FALSE
  /\ logouts = 0
  /\ scans = <<>>
  /\ up = UpIdle
  /\ srvAuthed \in BOOLEAN
  /\ srvProfiles \in AccountProfiles
  /\ loggedIn = FALSE
  /\ sessionStart = Len(srvProfiles)
  /\ inputs = 0
  /\ lastEvent = "init"
  /\ scanResult = <<>>

Init ==
  /\ InitApp
  /\ scanner = ScannerIdle
  /\ session = SessionIdle

\* one more user input or tray event
Input == inputs < MaxInputs /\ inputs' = inputs + 1


\* ------------------------------------------------------------------------
\* Mount, checkAuth and loadGameProfiles
\* ------------------------------------------------------------------------
\* loadGameProfiles up to its await (lines 85-87): one more call outstanding
loadGameProfiles(ls) == Append(ls, [pc |-> "sent", profiles |-> <<>>])

\* useEffect (lines 58-71): checkAuth() runs up to its await, the
\* trigger-scan listener is registered, deviceName is set from the user agent
Mount ==
  /\ ~mounted
  /\ mounted' = TRUE
  /\ authCheck' = [pc |-> "sent", status |-> LoggedOutStatus]
  /\ \E h \in Hostnames : deviceName' = h
  /\ lastEvent' = "mount"
  /\ UNCHANGED <<authStatus, detectedGames, selectedGames, gameProfiles,
                 isScanning, isUploading, activeTab, error, successMessage,
                 sessionCookie, isLoggingIn, showLoginForm, loads, loginCall,
                 logouts, scans, up, srvAuthed, srvProfiles, loggedIn>>
  /\ UNCHANGED <<sessionStart, scanner, session>>
  /\ scanResult' = <<>>
  /\ UNCHANGED inputs

\* the backend answers get_auth_status from the token it holds at that moment
BackendAuthStatus ==
  /\ authCheck.pc = "sent"
  /\ authCheck' = [pc |-> "replied",
                   status |-> IF srvAuthed THEN AuthedStatus ELSE LoggedOutStatus]
  /\ lastEvent' = "backend"
  /\ UNCHANGED <<authStatus, detectedGames, selectedGames, gameProfiles,
                 isScanning, isUploading, activeTab, error, successMessage,
                 sessionCookie, deviceName, isLoggingIn, showLoginForm, mounted,
                 loads, loginCall, logouts, scans, up, srvAuthed, srvProfiles,
                 loggedIn>>
  /\ UNCHANGED <<sessionStart, scanner, session>>
  /\ scanResult' = <<>>
  /\ UNCHANGED inputs


\* CheckAuthResolve with a defect: a status that is not authenticated is
\* reported as an error
CheckAuthResolveHardFail ==
  /\ authCheck.pc = "replied"
  /\ authCheck' = [pc |-> "done", status |-> LoggedOutStatus]
  /\ authStatus' = <<authCheck.status>>
  /\ IF authCheck.status.is_authenticated
     THEN /\ Len(loads) < MaxLoads
          /\ loads' = loadGameProfiles(loads)
          /\ error' = error
     ELSE /\ loads' = loads
          /\ error' = Msg("Not authenticated", 0)
  /\ lastEvent' = "check_auth_ok"
  /\ UNCHANGED <<detectedGames, selectedGames, gameProfiles, isScanning,
                 isUploading, activeTab, successMessage, sessionCookie,
                 deviceName, isLoggingIn, showLoginForm, mounted, loginCall,
                 logouts, scans, up, srvAuthed, srvProfiles, loggedIn>>
  /\ UNCHANGED <<sessionStart, scanner, session>>
  /\ scanResult' = <<>>
  /\ UNCHANGED inputs

\* checkAuth after its await resolved (lines 76-79)
CheckAuthResolve ==
  /\ authCheck.pc = "replied"
  /\ authCheck' = [pc |-> "done", status |-> LoggedOutStatus]
  /\ authStatus' = <<authCheck.status>>
  /\ IF authCheck.status.is_authenticated
     THEN /\ Len(loads) < MaxLoads
          /\ loads' = loadGameProfiles(loads)
     ELSE loads' = loads
  /\ lastEvent' = "check_auth_ok"
  /\ UNCHANGED <<detectedGames, selectedGames, gameProfiles, isScanning,
                 isUploading, activeTab, error, successMessage, sessionCookie,
                 deviceName, isLoggingIn, showLoginForm, mounted, loginCall,
                 logouts, scans, up, srvAuthed, srvProfiles, loggedIn>>
  /\ UNCHANGED <<sessionStart, scanner, session>>
  /\ scanResult' = <<>>
  /\ UNCHANGED inputs

\* checkAuth when get_auth_status rejected (lines 80-82)
CheckAuthReject ==
  /\ authCheck.pc = "sent"
  /\ authCheck' = [pc |-> "done", status |-> LoggedOutStatus]
  /\ error' = Msg("get_auth_status failed", 0)
  /\ lastEvent' = "check_auth_err"
  /\ UNCHANGED <<authStatus, detectedGames, selectedGames, gameProfiles,
                 isScanning, isUploading, activeTab, successMessage,
                 sessionCookie, deviceName, isLoggingIn, showLoginForm, mounted,
                 loads, loginCall, logouts, scans, up, srvAuthed, srvProfiles,
                 loggedIn>>
  /\ UNCHANGED <<sessionStart, scanner, session>>
  /\ scanResult' = <<>>
  /\ UNCHANGED inputs

\* the backend answers get_game_profiles with the account's profiles of
\* that moment (GET /api/devices/game-profiles)
BackendGetGameProfiles(k) ==
  /\ k \in DOMAIN loads
  /\ loads[k].pc = "sent"
  /\ loads' = [loads EXCEPT ![k] = [pc |-> "replied", profiles |-> srvProfiles]]
  /\ lastEvent' = "backend"
  /\ UNCHANGED <<authStatus, detectedGames, selectedGames, gameProfiles,
                 isScanning, isUploading, activeTab, error, successMessage,
                 sessionCookie, deviceName, isLoggingIn, showLoginForm, mounted,
                 authCheck, loginCall, logouts, scans, up, srvAuthed,
                 srvProfiles, loggedIn>>
  /\ UNCHANGED <<sessionStart, scanner, session>>
  /\ scanResult' = <<>>
  /\ UNCHANGED inputs

\* loadGameProfiles after its await resolved (line 88)
LoadGameProfilesResolve(k) ==
  /\ k \in DOMAIN loads
  /\ loads[k].pc = "replied"
  /\ gameProfiles' = loads[k].profiles
  /\ loads' = RemoveAt(loads, k)
  /\ lastEvent' = "load_profiles_ok"
  /\ UNCHANGED <<authStatus, detectedGames, selectedGames, isScanning,
                 isUploading, activeTab, error, successMessage, sessionCookie,
                 deviceName, isLoggingIn, showLoginForm, mounted, authCheck,
                 loginCall, logouts, scans, up, srvAuthed, srvProfiles,
                 loggedIn>>
  /\ UNCHANGED <<sessionStart, scanner, session>>
  /\ scanResult' = <<>>
  /\ UNCHANGED inputs

\* loadGameProfiles when get_game_profiles rejected (lines 89-91): logged only
LoadGameProfilesReject(k) ==
  /\ k \in DOMAIN loads
  /\ loads[k].pc = "sent"
  /\ loads' = RemoveAt(loads, k)
  /\ lastEvent' = "load_profiles_err"
  /\ UNCHANGED <<authStatus, detectedGames, selectedGames, gameProfiles,
                 isScanning, isUploading, activeTab, error, successMessage,
                 sessionCookie, deviceName, isLoggingIn, showLoginForm, mounted,
                 authCheck, loginCall, logouts, scans, up, srvAuthed,
                 srvProfiles, loggedIn>>
  /\ UNCHANGED <<sessionStart, scanner, session>>
  /\ scanResult' = <<>>
  /\ UNCHANGED inputs

\* ------------------------------------------------------------------------
\* The login form and handleLogin
\* ------------------------------------------------------------------------
\* "Connect Account" (line 256)
ShowLoginForm ==
  /\ Input
  /\ mounted /\ ~AuthenticatedView /\ ~showLoginForm
  /\ showLoginForm' = TRUE
  /\ lastEvent' = "ui"
  /\ UNCHANGED <<authStatus, detectedGames, selectedGames, gameProfiles,
                 isScanning, isUploading, activeTab, error, successMessage,
                 sessionCookie, deviceName, isLoggingIn, mounted, authCheck,
                 loads, loginCall, logouts, scans, up, srvAuthed, srvProfiles,
                 loggedIn>>
  /\ UNCHANGED <<sessionStart, scanner, session>>
  /\ scanResult' = <<>>

\* "Cancel" (lines 313-316)
CancelLoginForm ==
  /\ Input
  /\ mounted /\ ~AuthenticatedView /\ showLoginForm
  /\ showLoginForm' = FALSE
  /\ error' = NoMsg
  /\ lastEvent' = "ui"
  /\ UNCHANGED <<authStatus, detectedGames, selectedGames, gameProfiles,
                 isScanning, isUploading, activeTab, successMessage,
                 sessionCookie, deviceName, isLoggingIn, mounted, authCheck,
                 loads, loginCall, logouts, scans, up, srvAuthed, srvProfiles,
                 loggedIn>>
  /\ UNCHANGED <<sessionStart, scanner, session>>
  /\ scanResult' = <<>>

\* typing into the session cookie input (line 306)
SetSessionCookie(v) ==
  /\ Input
  /\ mounted /\ ~AuthenticatedView /\ showLoginForm
  /\ v # sessionCookie
  /\ sessionCookie' = v
  /\ lastEvent' = "ui"
  /\ UNCHANGED <<authStatus, detectedGames, selectedGames, gameProfiles,
                 isScanning, isUploading, activeTab, error, successMessage,
                 deviceName, isLoggingIn, showLoginForm, mounted, authCheck,
                 loads, loginCall, logouts, scans, up, srvAuthed, srvProfiles,
                 loggedIn>>
  /\ UNCHANGED <<sessionStart, scanner, session>>
  /\ scanResult' = <<>>

\* typing into the device name input (line 296)
SetDeviceName(v) ==
  /\ Input
  /\ mounted /\ ~AuthenticatedView /\ showLoginForm
  /\ v # deviceName
  /\ deviceName' = v
  /\ lastEvent' = "ui"
  /\ UNCHANGED <<authStatus, detectedGames, selectedGames, gameProfiles,
                 isScanning, isUploading, activeTab, error, successMessage,
                 sessionCookie, isLoggingIn, showLoginForm, mounted, authCheck,
                 loads, loginCall, logouts, scans, up, srvAuthed, srvProfiles,
                 loggedIn>>
  /\ UNCHANGED <<sessionStart, scanner, session>>
  /\ scanResult' = <<>>

\* the "Connect" button can be clicked (lines 253, 321-323)
ConnectEnabled == mounted /\ ~AuthenticatedView /\ showLoginForm /\ ~isLoggingIn

\* handleLogin with an empty session cookie (lines 95-98)
HandleLoginNoCookie ==
  /\ Input
  /\ ConnectEnabled
  /\ trim(sessionCookie) = <<>>
  /\ error' = Msg("Please enter your session cookie", 0)
  /\ lastEvent' = "login_no_cookie"
  /\ UNCHANGED <<authStatus, detectedGames, selectedGames, gameProfiles,
                 isScanning, isUploading, activeTab, successMessage,
                 sessionCookie, deviceName, isLoggingIn, showLoginForm, mounted,
                 authCheck, loads, loginCall, logouts, scans, up, srvAuthed,
                 srvProfiles, loggedIn>>
  /\ UNCHANGED <<sessionStart, scanner, session>>
  /\ scanResult' = <<>>

\* handleLogin with an empty device name (lines 99-102)
HandleLoginNoDevice ==
  /\ Input
  /\ ConnectEnabled
  /\ trim(sessionCookie) # <<>>
  /\ trim(deviceName) = <<>>
  /\ error' = Msg("Please enter a device name", 0)
  /\ lastEvent' = "login_no_device"
  /\ UNCHANGED <<authStatus, detectedGames, selectedGames, gameProfiles,
                 isScanning, isUploading, activeTab, successMessage,
                 sessionCookie, deviceName, isLoggingIn, showLoginForm, mounted,
                 authCheck, loads, loginCall, logouts, scans, up, srvAuthed,
                 srvProfiles, loggedIn>>
  /\ UNCHANGED <<sessionStart, scanner, session>>
  /\ scanResult' = <<>>

\* handleLogin up to its await (lines 104-110)
HandleLogin ==
  /\ Input
  /\ ConnectEnabled
  /\ trim(sessionCookie) # <<>>
  /\ trim(deviceName) # <<>>
  /\ isLoggingIn' = TRUE
  /\ error' = NoMsg
  /\ loginCall' = TRUE
  /\ lastEvent' = "login_start"
  /\ UNCHANGED <<authStatus, detectedGames, selectedGames, gameProfiles,
                 isScanning, isUploading, activeTab, successMessage,
                 sessionCookie, deviceName, showLoginForm, mounted, authCheck,
                 loads, logouts, scans, up, srvAuthed, srvProfiles, loggedIn>>
  /\ UNCHANGED <<sessionStart, scanner, session>>
  /\ scanResult' = <<>>

\* handleLogin after login resolved (lines 111-118, 122); the backend has
\* stored the device token (POST /api/devices/register)
LoginResolve ==
  /\ loginCall
  /\ Len(loads) < MaxLoads
  /\ loginCall' = FALSE
  /\ srvAuthed' = TRUE
  /\ authStatus' = <<AuthedStatus>>
  /\ sessionCookie' = <<>>
  /\ showLoginForm' = FALSE
  /\ loads' = loadGameProfiles(loads)
  /\ successMessage' = Msg("Successfully connected to SaveKnight!", 0)
  /\ isLoggingIn' = FALSE
  /\ loggedIn' = TRUE
  /\ lastEvent' = "login_ok"
  /\ UNCHANGED <<detectedGames, selectedGames, gameProfiles, isScanning,
                 isUploading, activeTab, error, deviceName, mounted, authCheck,
                 logouts, scans, up, srvProfiles>>
  /\ UNCHANGED <<sessionStart, scanner, session>>
  /\ scanResult' = <<>>
  /\ UNCHANGED inputs


\* LoginReject with a defect: the failed login leaves a half-filled,
\* authenticated status behind
LoginRejectPartial ==
  /\ loginCall
  /\ loginCall' = FALSE
  /\ authStatus' = <<AuthStatus(TRUE, Null, Null, Null)>>
  /\ error' = Msg("login failed", 0)
  /\ isLoggingIn' = FALSE
  /\ lastEvent' = "login_err"
  /\ UNCHANGED <<detectedGames, selectedGames, gameProfiles, isScanning,
                 isUploading, activeTab, successMessage, sessionCookie,
                 deviceName, showLoginForm, mounted, authCheck, loads, logouts,
                 scans, up, srvAuthed, srvProfiles, loggedIn>>
  /\ UNCHANGED <<sessionStart, scanner, session>>
  /\ scanResult' = <<>>
  /\ UNCHANGED inputs

\* handleLogin when login rejected (lines 119-123)
LoginReject ==
  /\ loginCall
  /\ loginCall' = FALSE
  /\ error' = Msg("login failed", 0)
  /\ isLoggingIn' = FALSE
  /\ lastEvent' = "login_err"
  /\ UNCHANGED <<authStatus, detectedGames, selectedGames, gameProfiles,
                 isScanning, isUploading, activeTab, successMessage,
                 sessionCookie, deviceName, showLoginForm, mounted, authCheck,
                 loads, logouts, scans, up, srvAuthed, srvProfiles, loggedIn>>
  /\ UNCHANGED <<sessionStart, scanner, session>>
  /\ scanResult' = <<>>
  /\ UNCHANGED inputs

\* ------------------------------------------------------------------------
\* handleLogout
\* ------------------------------------------------------------------------
\* the in-memory state is what handleLogout leaves behind
LoggedOutState ==
  /\ authStatus = <<LoggedOutStatus>>
  /\ detectedGames = <<>>
  /\ selectedGames = {}
  /\ gameProfiles = <<>>

\* "Sign Out" (line 513): handleLogout up to its await (line 128)
HandleLogout ==
  /\ Input
  /\ AuthenticatedView /\ activeTab = "settings"
  /\ logouts < MaxLogouts
  /\ logouts' = logouts + 1
  /\ lastEvent' = "logout_start"
  /\ UNCHANGED <<authStatus, detectedGames, selectedGames, gameProfiles,
                 isScanning, isUploading, activeTab, error, successMessage,
                 sessionCookie, deviceName, isLoggingIn, showLoginForm, mounted,
                 authCheck, loads, loginCall, scans, up, srvAuthed, srvProfiles,
                 loggedIn>>
  /\ UNCHANGED <<sessionStart, scanner, session>>
  /\ scanResult' = <<>>


\* LogoutResolve with a defect: the profile cache is not cleared
LogoutResolveKeepsProfiles ==
  /\ UNCHANGED inputs
  /\ logouts > 0
  /\ logouts' = logouts - 1
  /\ srvAuthed' = FALSE
  /\ authStatus' = <<LoggedOutStatus>>
  /\ detectedGames' = <<>>
  /\ selectedGames' = {}
  /\ loggedIn' = FALSE
  /\ sessionStart' = Len(srvProfiles)
  /\ UNCHANGED <<scanner, session>>
  /\ scanResult' = <<>>
  /\ lastEvent' = IF LoggedOutState THEN "logout_ok_again" ELSE "logout_ok"
  /\ UNCHANGED <<gameProfiles, isScanning, isUploading, activeTab, error,
                 successMessage, sessionCookie, deviceName, isLoggingIn,
                 showLoginForm, mounted, authCheck, loads, loginCall, scans, up,
                 srvProfiles>>

\* handleLogout after logout resolved (lines 129-132); the backend has
\* cleared the device token
LogoutResolve ==
  /\ UNCHANGED inputs
  /\ logouts > 0
  /\ logouts' = logouts - 1
  /\ srvAuthed' = FALSE
  /\ authStatus' = <<LoggedOutStatus>>
  /\ detectedGames' = <<>>
  /\ selectedGames' = {}
  /\ gameProfiles' = <<>>
  /\ loggedIn' = FALSE
  /\ sessionStart' = Len(srvProfiles)
  /\ UNCHANGED <<scanner, session>>
  /\ scanResult' = <<>>
  /\ lastEvent' = IF LoggedOutState THEN "logout_ok_again" ELSE "logout_ok"
  /\ UNCHANGED <<isScanning, isUploading, activeTab, error, successMessage,
                 sessionCookie, deviceName, isLoggingIn, showLoginForm, mounted,
                 authCheck, loads, loginCall, scans, up, srvProfiles>>

\* handleLogout when logout rejected (lines 133-135)
LogoutReject ==
  /\ logouts > 0
  /\ logouts' = logouts - 1
  /\ error' = Msg("logout failed", 0)
  /\ lastEvent' = "logout_err"
  /\ UNCHANGED <<authStatus, detectedGames, selectedGames, gameProfiles,
                 isScanning, isUploading, activeTab, successMessage,
                 sessionCookie, deviceName, isLoggingIn, showLoginForm, mounted,
                 authCheck, loads, loginCall, scans, up, srvAuthed, srvProfiles,
                 loggedIn>>
  /\ UNCHANGED <<sessionStart, scanner, session>>
  /\ scanResult' = <<>>
  /\ UNCHANGED inputs


\* ------------------------------------------------------------------------
\* handleScan
\* ------------------------------------------------------------------------
\* handleScan up to its await (lines 139-142)
handleScan ==
  /\ Input
  /\ Len(scans) < MaxScans
  /\ isScanning' = TRUE
  /\ error' = NoMsg
  /\ scans' = Append([k \in DOMAIN scans |-> FALSE], TRUE)
  /\ UNCHANGED <<authStatus, detectedGames, selectedGames, gameProfiles,
                 isUploading, activeTab, successMessage, sessionCookie,
                 deviceName, isLoggingIn, showLoginForm, mounted, authCheck,
                 loads, loginCall, logouts, up, srvAuthed, srvProfiles,
                 loggedIn>>
  /\ UNCHANGED <<sessionStart, scanner, session>>
  /\ scanResult' = <<>>

\* the "Scan" button (lines 402-404)
HandleScan ==
  /\ AuthenticatedView /\ activeTab = "games" /\ ~isScanning
  /\ handleScan
  /\ lastEvent' = "scan_start"

\* the 'trigger-scan' event of the tray menu (lines 61-63)
TriggerScan ==
  /\ mounted
  /\ handleScan
  /\ lastEvent' = "scan_trigger"


\* ScanResolve with a defect: the games of the result that are not yet
\* listed are appended to the previous list
ScanResolveMerges(k, games) ==
  /\ k \in DOMAIN scans
  /\ scans' = RemoveAt(scans, k)
  /\ scanResult' = games
  /\ detectedGames' =
       detectedGames \o
         SelectSeq(games, LAMBDA g : g \notin Range(detectedGames))
  /\ successMessage' = IF Len(games) > 0
                       THEN Msg("Found games with save files!", Len(games))
                       ELSE successMessage
  /\ isScanning' = FALSE
  /\ lastEvent' = IF scans[k] THEN "scan_ok" ELSE "scan_ok_stale"
  /\ UNCHANGED <<authStatus, selectedGames, gameProfiles, isUploading,
                 activeTab, error, sessionCookie, deviceName, isLoggingIn,
                 showLoginForm, mounted, authCheck, loads, loginCall, logouts,
                 up, srvAuthed, srvProfiles, loggedIn>>
  /\ UNCHANGED <<sessionStart, scanner, session>>
  /\ UNCHANGED inputs

\* handleScan after scan_games resolved (lines 143-147, 151)
ScanResolve(k, games) ==
  /\ k \in DOMAIN scans
  /\ scans' = RemoveAt(scans, k)
  /\ scanResult' = games
  /\ detectedGames' = games
  /\ successMessage' = IF Len(games) > 0
                       THEN Msg("Found games with save files!", Len(games))
                       ELSE successMessage
  /\ isScanning' = FALSE
  /\ lastEvent' = IF scans[k] THEN "scan_ok" ELSE "scan_ok_stale"
  /\ UNCHANGED <<authStatus, selectedGames, gameProfiles, isUploading,
                 activeTab, error, sessionCookie, deviceName, isLoggingIn,
                 showLoginForm, mounted, authCheck, loads, loginCall, logouts,
                 up, srvAuthed, srvProfiles, loggedIn>>
  /\ UNCHANGED <<sessionStart, scanner, session>>
  /\ UNCHANGED inputs


\* ScanReject with a defect: the failure leaves isScanning set
ScanRejectStaysBusy(k) ==
  /\ k \in DOMAIN scans
  /\ scans' = RemoveAt(scans, k)
  /\ error' = Msg("scan_games failed", 0)
  /\ lastEvent' = "scan_err"
  /\ UNCHANGED <<authStatus, detectedGames, selectedGames, gameProfiles,
                 isScanning, isUploading, activeTab, successMessage,
                 sessionCookie, deviceName, isLoggingIn, showLoginForm, mounted,
                 authCheck, loads, loginCall, logouts, up, srvAuthed,
                 srvProfiles, loggedIn>>
  /\ UNCHANGED <<sessionStart, scanner, session>>
  /\ scanResult' = <<>>
  /\ UNCHANGED inputs

\* handleScan when scan_games rejected (lines 148-152)
ScanReject(k) ==
  /\ k \in DOMAIN scans
  /\ scans' = RemoveAt(scans, k)
  /\ error' = Msg("scan_games failed", 0)
  /\ isScanning' = FALSE
  /\ lastEvent' = "scan_err"
  /\ UNCHANGED <<authStatus, detectedGames, selectedGames, gameProfiles,
                 isUploading, activeTab, successMessage, sessionCookie,
                 deviceName, isLoggingIn, showLoginForm, mounted, authCheck,
                 loads, loginCall, logouts, up, srvAuthed, srvProfiles,
                 loggedIn>>
  /\ UNCHANGED <<sessionStart, scanner, session>>
  /\ scanResult' = <<>>
  /\ UNCHANGED inputs

\* ------------------------------------------------------------------------
\* Selection and the rest of the authenticated view
\* ------------------------------------------------------------------------
\* the list of games with "Select All" / "Deselect All" is shown (lines 397, 429)
GameListShown ==
  AuthenticatedView /\ activeTab = "games" /\ detectedGames # <<>>

\* toggleGameSelection (lines 217-227), clicked on a listed game (line 455)
ToggleGameSelection(gameName) ==
  /\ Input
  /\ GameListShown
  /\ gameName \in Range(detectedGames)
  /\ selectedGames' = IF gameName \in selectedGames
                      THEN selectedGames \ {gameName}
                      ELSE selectedGames \cup {gameName}
  /\ lastEvent' = "ui"
  /\ UNCHANGED <<authStatus, detectedGames, gameProfiles, isScanning,
                 isUploading, activeTab, error, successMessage, sessionCookie,
                 deviceName, isLoggingIn, showLoginForm, mounted, authCheck,
                 loads, loginCall, logouts, scans, up, srvAuthed, srvProfiles,
                 loggedIn>>
  /\ UNCHANGED <<sessionStart, scanner, session>>
  /\ scanResult' = <<>>

\* selectAll (lines 229-231)
SelectAll ==
  /\ Input
  /\ GameListShown
  /\ selectedGames' = Range(detectedGames)
  /\ lastEvent' = "ui"
  /\ UNCHANGED <<authStatus, detectedGames, gameProfiles, isScanning,
                 isUploading, activeTab, error, successMessage, sessionCookie,
                 deviceName, isLoggingIn, showLoginForm, mounted, authCheck,
                 loads, loginCall, logouts, scans, up, srvAuthed, srvProfiles,
                 loggedIn>>
  /\ UNCHANGED <<sessionStart, scanner, session>>
  /\ scanResult' = <<>>

\* deselectAll (lines 233-235)
DeselectAll ==
  /\ Input
  /\ GameListShown
  /\ selectedGames' = {}
  /\ lastEvent' = "ui"
  /\ UNCHANGED <<authStatus, detectedGames, gameProfiles, isScanning,
                 isUploading, activeTab, error, successMessage, sessionCookie,
                 deviceName, isLoggingIn, showLoginForm, mounted, authCheck,
                 loads, loginCall, logouts, scans, up, srvAuthed, srvProfiles,
                 loggedIn>>
  /\ UNCHANGED <<sessionStart, scanner, session>>
  /\ scanResult' = <<>>

\* the "Games" / "Settings" buttons (lines 356, 366)
SetActiveTab(tab) ==
  /\ Input
  /\ AuthenticatedView
  /\ tab # activeTab
  /\ activeTab' = tab
  /\ lastEvent' = "ui"
  /\ UNCHANGED <<authStatus, detectedGames, selectedGames, gameProfiles,
                 isScanning, isUploading, error, successMessage, sessionCookie,
                 deviceName, isLoggingIn, showLoginForm, mounted, authCheck,
                 loads, loginCall, logouts, scans, up, srvAuthed, srvProfiles,
                 loggedIn>>
  /\ UNCHANGED <<sessionStart, scanner, session>>
  /\ scanResult' = <<>>

\* the dismiss button of the error banner (lines 380-386)
DismissError ==
  /\ Input
  /\ AuthenticatedView
  /\ error # NoMsg
  /\ error' = NoMsg
  /\ lastEvent' = "ui"
  /\ UNCHANGED <<authStatus, detectedGames, selectedGames, gameProfiles,
                 isScanning, isUploading, activeTab, successMessage,
                 sessionCookie, deviceName, isLoggingIn, showLoginForm, mounted,
                 authCheck, loads, loginCall, logouts, scans, up, srvAuthed,
                 srvProfiles, loggedIn>>
  /\ UNCHANGED <<sessionStart, scanner, session>>
  /\ scanResult' = <<>>

\* a setTimeout(() => setSuccessMessage(null), ...) fires (lines 117, 146,
\* 205): whenever a message is shown, the timer started with it is pending
SuccessTimeout ==
  /\ successMessage # NoMsg
  /\ successMessage' = NoMsg
  /\ lastEvent' = "ui"
  /\ UNCHANGED <<authStatus, detectedGames, selectedGames, gameProfiles,
                 isScanning, isUploading, activeTab, error, sessionCookie,
                 deviceName, isLoggingIn, showLoginForm, mounted, authCheck,
                 loads, loginCall, logouts, scans, up, srvAuthed, srvProfiles,
                 loggedIn>>
  /\ UNCHANGED <<sessionStart, scanner, session>>
  /\ scanResult' = <<>>
  /\ UNCHANGED inputs

\* ------------------------------------------------------------------------
\* handleUpload
\* ------------------------------------------------------------------------
\* detectedGames.filter((g) => selectedGames.has(g.name)) (line 167)
RECURSIVE FilterSelected(_, _)
FilterSelected(games, selected) ==
  IF games = <<>> THEN <<>>
  ELSE (IF Head(games) \in selected THEN <<Head(games)>> ELSE <<>>)
       \o FilterSelected(Tail(games), selected)

\* index of the first profile whose name equals the game's name ignoring
\* case, 0 when there is none: gameProfiles.find(...) (line 170)
FindProfile(profiles, gameName) ==
  LET hits == {k \in DOMAIN profiles :
                 toLowerCase(profiles[k].name) = toLowerCase(gameName)}
  IN  IF hits = {} THEN 0
      ELSE CHOOSE k \in hits : \A j \in hits : k <= j


\* FinishBatch with a defect: the selection is cleared only when no game failed
FinishBatchKeepsFailed(u, err) ==
  /\ selectedGames' = IF u.fail > 0 THEN selectedGames ELSE {}
  /\ successMessage' = IF u.success > 0
                       THEN Msg("Successfully backed up game(s)!", u.success)
                       ELSE successMessage
  /\ error' = IF u.fail > 0
              THEN Msg("Failed to backup game(s). Check logs for details.", u.fail)
              ELSE err
  /\ isUploading' = FALSE
  /\ up' = [u EXCEPT !.pc = "idle", !.i = 0, !.snap = <<>>, !.profileId = 0,
                     !.done = TRUE]

\* after the loop (lines 201-209, 213): the batch ends
FinishBatch(u, err) ==
  /\ selectedGames' = {}
  /\ successMessage' = IF u.success > 0
                       THEN Msg("Successfully backed up game(s)!", u.success)
                       ELSE successMessage
  /\ error' = IF u.fail > 0
              THEN Msg("Failed to backup game(s). Check logs for details.", u.fail)
              ELSE err
  /\ isUploading' = FALSE
  /\ up' = [u EXCEPT !.pc = "idle", !.i = 0, !.snap = <<>>, !.profileId = 0,
                     !.done = TRUE]

\* the loop body for game u.i up to its first await (lines 170-177, 187-192):
\* the profile is looked up in the gameProfiles the handler captured
StartGame(u, err, busy) ==
  LET game == u.games[u.i]
      k    == FindProfile(u.snap, game)
  IN  /\ up' = IF k = 0
               THEN [u EXCEPT !.pc = "await_create", !.profileId = 0]
               ELSE [u EXCEPT !.pc = "await_upload", !.profileId = u.snap[k].id]
      /\ error' = err
      /\ isUploading' = busy
      /\ UNCHANGED <<selectedGames, successMessage>>

\* the for loop from game u.i on, up to the next await or the end (line 169)
RunLoop(u, err, busy) ==
  IF u.i > Len(u.games) THEN FinishBatch(u, err) ELSE StartGame(u, err, busy)

\* the "Backup Selected" button (lines 414-416): handleUpload from its start
\* to its first await (lines 161-177).  The button is disabled while a batch
\* runs and while nothing is selected, so the early return of lines 156-159
\* is not taken from the button
HandleUpload ==
  /\ Input
  /\ AuthenticatedView /\ activeTab = "games"
  /\ ~isUploading /\ selectedGames # {}
  /\ RunLoop([pc |-> "start", games |-> FilterSelected(detectedGames, selectedGames),
              i |-> 1, snap |-> gameProfiles, profileId |-> 0, success |-> 0,
              fail |-> 0, outcomes |-> <<>>, nsel |-> Cardinality(selectedGames),
              done |-> FALSE],
             NoMsg, TRUE)
  /\ lastEvent' = "upload_start"
  /\ UNCHANGED <<authStatus, detectedGames, gameProfiles, isScanning, activeTab,
                 sessionCookie, deviceName, isLoggingIn, showLoginForm, mounted,
                 authCheck, loads, loginCall, logouts, scans, srvAuthed,
                 srvProfiles, loggedIn>>
  /\ UNCHANGED <<sessionStart, scanner, session>>
  /\ scanResult' = <<>>

\* create_game_profile resolved (lines 178-179, 187-192): the service has
\* created the profile (POST /api/devices/game-profiles), it is appended to
\* the cache and the upload of the game is requested
CreateResolve ==
  /\ up.pc = "await_create"
  /\ Len(srvProfiles) < MaxProfiles
  /\ LET newProfile == GameProfile(Len(srvProfiles) + 1, up.games[up.i])
     IN  /\ srvProfiles' = Append(srvProfiles, newProfile)
         /\ gameProfiles' = Append(gameProfiles, newProfile)
         /\ up' = [up EXCEPT !.pc = "await_upload", !.profileId = newProfile.id]
  /\ lastEvent' = "create_ok"
  /\ UNCHANGED <<authStatus, detectedGames, selectedGames, isScanning,
                 isUploading, activeTab, error, successMessage, sessionCookie,
                 deviceName, isLoggingIn, showLoginForm, mounted, authCheck,
                 loads, loginCall, logouts, scans, srvAuthed, loggedIn>>
  /\ UNCHANGED <<sessionStart, scanner, session>>
  /\ scanResult' = <<>>
  /\ UNCHANGED inputs


\* CreateReject with a defect: the upload is requested although no profile
\* was created
CreateRejectUploads ==
  /\ up.pc = "await_create"
  /\ up' = [up EXCEPT !.pc = "await_upload"]
  /\ lastEvent' = "create_err"
  /\ UNCHANGED <<authStatus, detectedGames, selectedGames, gameProfiles,
                 isScanning, isUploading, activeTab, error, successMessage,
                 sessionCookie, deviceName, isLoggingIn, showLoginForm, mounted,
                 authCheck, loads, loginCall, logouts, scans, srvAuthed,
                 srvProfiles, loggedIn>>
  /\ UNCHANGED <<sessionStart, scanner, session>>
  /\ scanResult' = <<>>
  /\ UNCHANGED inputs

\* create_game_profile rejected (lines 180-184): the game has failed, the
\* loop continues with the next game
CreateReject ==
  /\ up.pc = "await_create"
  /\ RunLoop([up EXCEPT !.fail = @ + 1, !.i = @ + 1,
                        !.outcomes = Append(@, "create failed")],
             error, isUploading)
  /\ lastEvent' = "create_err"
  /\ UNCHANGED <<authStatus, detectedGames, gameProfiles, isScanning, activeTab,
                 sessionCookie, deviceName, isLoggingIn, showLoginForm, mounted,
                 authCheck, loads, loginCall, logouts, scans, srvAuthed,
                 srvProfiles, loggedIn>>
  /\ UNCHANGED <<sessionStart, scanner, session>>
  /\ scanResult' = <<>>
  /\ UNCHANGED inputs

\* upload_saves resolved (line 193), the loop continues
UploadResolve ==
  /\ up.pc = "await_upload"
  /\ RunLoop([up EXCEPT !.success = @ + 1, !.i = @ + 1,
                        !.outcomes = Append(@, "uploaded")],
             error, isUploading)
  /\ lastEvent' = "upload_ok"
  /\ UNCHANGED <<authStatus, detectedGames, gameProfiles, isScanning, activeTab,
                 sessionCookie, deviceName, isLoggingIn, showLoginForm, mounted,
                 authCheck, loads, loginCall, logouts, scans, srvAuthed,
                 srvProfiles, loggedIn>>
  /\ UNCHANGED <<sessionStart, scanner, session>>
  /\ scanResult' = <<>>
  /\ UNCHANGED inputs


\* UploadReject with a defect: the failure leaves the loop, the games after
\* the failed one are not processed
UploadRejectAborts ==
  /\ up.pc = "await_upload"
  /\ FinishBatch([up EXCEPT !.fail = @ + 1, !.i = Len(up.games) + 1,
                            !.outcomes = Append(@, "upload failed")],
                 error)
  /\ lastEvent' = "upload_err"
  /\ UNCHANGED <<authStatus, detectedGames, gameProfiles, isScanning, activeTab,
                 sessionCookie, deviceName, isLoggingIn, showLoginForm, mounted,
                 authCheck, loads, loginCall, logouts, scans, srvAuthed,
                 srvProfiles, loggedIn>>
  /\ UNCHANGED <<sessionStart, scanner, session>>
  /\ scanResult' = <<>>
  /\ UNCHANGED inputs

\* upload_saves rejected (lines 194-197), the loop continues
UploadReject ==
  /\ up.pc = "await_upload"
  /\ RunLoop([up EXCEPT !.fail = @ + 1, !.i = @ + 1,
                        !.outcomes = Append(@, "upload failed")],
             error, isUploading)
  /\ lastEvent' = "upload_err"
  /\ UNCHANGED <<authStatus, detectedGames, gameProfiles, isScanning, activeTab,
                 sessionCookie, deviceName, isLoggingIn, showLoginForm, mounted,
                 authCheck, loads, loginCall, logouts, scans, srvAuthed,
                 srvProfiles, loggedIn>>
  /\ UNCHANGED <<sessionStart, scanner, session>>
  /\ scanResult' = <<>>
  /\ UNCHANGED inputs

\* ------------------------------------------------------------------------
\* The specification
\* ------------------------------------------------------------------------
Next ==
  \/ Mount
  \/ BackendAuthStatus
  \/ CheckAuthResolve
  \/ CheckAuthReject
  \/ \E k \in 1..MaxLoads : BackendGetGameProfiles(k)
  \/ \E k \in 1..MaxLoads : LoadGameProfilesResolve(k)
  \/ \E k \in 1..MaxLoads : LoadGameProfilesReject(k)
  \/ ShowLoginForm
  \/ CancelLoginForm
  \/ \E v \in CookieInputs : SetSessionCookie(v)
  \/ \E v \in DeviceInputs \cup Hostnames : SetDeviceName(v)
  \/ HandleLoginNoCookie
  \/ HandleLoginNoDevice
  \/ HandleLogin
  \/ LoginResolve
  \/ LoginReject
  \/ HandleLogout
  \/ LogoutResolve
  \/ LogoutReject
  \/ HandleScan
  \/ TriggerScan
  \/ \E k \in 1..MaxScans, games \in ScanResults : ScanResolve(k, games)
  \/ \E k \in 1..MaxScans : ScanReject(k)
  \/ \E gameName \in Range(Manifest) : ToggleGameSelection(gameName)
  \/ SelectAll
  \/ DeselectAll
  \/ \E tab \in {"games", "settings"} : SetActiveTab(tab)
  \/ DismissError
  \/ SuccessTimeout
  \/ HandleUpload
  \/ CreateResolve
  \/ CreateReject
  \/ UploadResolve
  \/ UploadReject

Spec == Init /\ [][Next]_vars

\* the remote calls of scan, login and backup return or fail
ScanReply ==
  \/ \E k \in 1..MaxScans, games \in ScanResults : ScanResolve(k, games)
  \/ \E k \in 1..MaxScans : ScanReject(k)

LoginReply == LoginResolve \/ LoginReject

BatchReply == CreateResolve \/ CreateReject \/ UploadResolve \/ UploadReject

\* the component when every remote call of scan, login and backup
\* eventually returns or fails
FairSpec ==
  /\ Spec
  /\ WF_vars(ScanReply)
  /\ WF_vars(LoginReply)
  /\ WF_vars(BatchReply)

\* a batch runs exactly while isUploading is set
UploadBusy == (up.pc # "idle") <=> isUploading


\* ------------------------------------------------------------------------
\* The handlers called directly
\* ------------------------------------------------------------------------

\* HandleUploadNothingSelected with a defect: the return of line 158 is
\* missing, the handler goes on with the empty batch
HandleUploadNoReturn ==
  /\ Input
  /\ mounted
  /\ selectedGames = {}
  /\ RunLoop([pc |-> "start", games |-> FilterSelected(detectedGames, selectedGames),
              i |-> 1, snap |-> gameProfiles, profileId |-> 0, success |-> 0,
              fail |-> 0, outcomes |-> <<>>, nsel |-> Cardinality(selectedGames),
              done |-> FALSE],
             NoMsg, TRUE)
  /\ lastEvent' = "upload_nothing_selected"
  /\ UNCHANGED <<authStatus, detectedGames, gameProfiles, isScanning, activeTab,
                 sessionCookie, deviceName, isLoggingIn, showLoginForm, mounted,
                 authCheck, loads, loginCall, logouts, scans, srvAuthed,
                 srvProfiles, loggedIn>>
  /\ UNCHANGED <<sessionStart, scanner, session>>
  /\ scanResult' = <<>>

\* handleUpload called while nothing is selected (lines 155-159), which the
\* "Backup Selected" button, disabled then, never does
HandleUploadNothingSelected ==
  /\ Input
  /\ mounted
  /\ selectedGames = {}
  /\ error' = Msg("Please select at least one game to backup", 0)
  /\ lastEvent' = "upload_nothing_selected"
  /\ UNCHANGED <<authStatus, detectedGames, selectedGames, gameProfiles,
                 isScanning, isUploading, activeTab, successMessage,
                 sessionCookie, deviceName, isLoggingIn, showLoginForm, mounted,
                 authCheck, loads, loginCall, logouts, scans, up, srvAuthed,
                 srvProfiles, loggedIn>>
  /\ UNCHANGED <<sessionStart, scanner, session>>
  /\ scanResult' = <<>>

NextHandlers == Next \/ HandleUploadNothingSelected

\* the component with handleUpload callable whatever the button allows
SpecHandlers == Init /\ [][NextHandlers]_vars

\* ------------------------------------------------------------------------
\* A signed-in session, from a finished scan to its logout
\* ------------------------------------------------------------------------
\* the component after the start-up check found the stored token valid, the
\* profiles of the account were loaded, a scan detected the three games of
\* the manifest and its success message timed out; the inputs are counted
\* from here
InitSignedIn ==
  /\ authStatus = <<AuthedStatus>>
  /\ detectedGames = Manifest
  /\ selectedGames = {}
  /\ srvProfiles \in AccountProfiles
  /\ gameProfiles = srvProfiles
  /\ isScanning = FALSE
  /\ isUploading = FALSE
  /\ activeTab = "games"
  /\ error = NoMsg
  /\ successMessage = NoMsg
  /\ sessionCookie = <<>>
  /\ deviceName \in Hostnames
  /\ isLoggingIn = FALSE
  /\ showLoginForm = FALSE
  /\ mounted = TRUE
  /\ authCheck = [pc |-> "done", status |-> LoggedOutStatus]
  /\ loads = <<>>
  /\ loginCall = FALSE
  /\ logouts = 0
  /\ scans = <<>>
  /\ up = UpIdle
  /\ srvAuthed = TRUE
  /\ loggedIn = FALSE
  /\ sessionStart = Len(srvProfiles)
  /\ inputs = 0
  /\ lastEvent = "ui"
  /\ scanResult = <<>>
  /\ scanner = ScannerIdle
  /\ session = SessionIdle

\* what the authenticated view offers, the tray event and the replies
NextSignedIn ==
  \/ HandleLogout
  \/ LogoutResolve
  \/ LogoutReject
  \/ HandleScan
  \/ TriggerScan
  \/ \E k \in 1..MaxScans, games \in ScanResults : ScanResolve(k, games)
  \/ \E k \in 1..MaxScans : ScanReject(k)
  \/ \E gameName \in Range(Manifest) : ToggleGameSelection(gameName)
  \/ SelectAll
  \/ DeselectAll
  \/ \E tab \in {"games", "settings"} : SetActiveTab(tab)
  \/ DismissError
  \/ SuccessTimeout
  \/ HandleUpload
  \/ CreateResolve
  \/ CreateReject
  \/ UploadResolve
  \/ UploadReject

SpecSignedIn == InitSignedIn /\ [][NextSignedIn]_vars

\* ------------------------------------------------------------------------
\* The Scanner on its own: scan_games over a file system that changes
\* ------------------------------------------------------------------------
\* the state of the component, lastEvent apart
appVars == <<authStatus, detectedGames, selectedGames, gameProfiles, isScanning,
             isUploading, activeTab, error, successMessage, sessionCookie,
             deviceName, isLoggingIn, showLoginForm, mounted, authCheck, loads,
             loginCall, logouts, scans, up, srvAuthed, srvProfiles, loggedIn,
             sessionStart, inputs, scanResult>>

InitScanner ==
  /\ InitApp
  /\ scanner \in [files : FileSystems, result : {<<>>}]
  /\ session = SessionIdle

\* save directories appear and disappear between scans
FilesChange(files) ==
  /\ files # scanner.files
  /\ scanner' = [scanner EXCEPT !.files = files]
  /\ lastEvent' = "files"
  /\ UNCHANGED <<appVars, session>>


\* scan_games: the manifest is scanned against the file system of the moment
ScanGames ==
  /\ scanner' = [scanner EXCEPT !.result = scan(Manifest, scanner.files)]
  /\ lastEvent' = "scan_games"
  /\ UNCHANGED <<appVars, session>>

NextScanner ==
  \/ \E files \in FileSystems : FilesChange(files)
  \/ ScanGames

SpecScanner == InitScanner /\ [][NextScanner]_vars

\* ------------------------------------------------------------------------
\* The AuthSession on its own: ensure_valid_token under concurrent callers
\* ------------------------------------------------------------------------
\* the callers that wait for the refresh in flight, its issuer included
Refreshed(c) == session.callers[c].pc \in {"refreshing", "awaiting"}

\* time passes: the cached token comes within the refresh threshold
TokenNearsExpiry ==
  /\ ~session.expiring
  /\ session.issued < MaxRefreshes
  /\ session' = [session EXCEPT !.expiring = TRUE]
  /\ lastEvent' = "expiring"
  /\ UNCHANGED <<appVars, scanner>>


\* EnsureValidToken with a defect: a caller that finds the token near expiry
\* refreshes it although a refresh is in flight
EnsureValidTokenUnserialized(c) ==
  /\ session.callers[c].pc = "idle"
  /\ session.expiring => session.issued < MaxRefreshes
  /\ session' =
       IF ~session.expiring
       THEN [session EXCEPT !.callers[c] =
                               [pc |-> "has_token", token |-> session.token]]
       ELSE [session EXCEPT !.inFlight = @ + 1, !.issued = @ + 1,
                            !.callers[c].pc = "refreshing"]
  /\ lastEvent' = "ensure_valid_token"
  /\ UNCHANGED <<appVars, scanner>>

\* ensure_valid_token up to its first wait: the cached token when it is
\* fresh, the refresh in flight when there is one, a refresh of its own
\* otherwise
EnsureValidToken(c) ==
  /\ session.callers[c].pc = "idle"
  /\ session.expiring /\ session.inFlight = 0 => session.issued < MaxRefreshes
  /\ session' =
       IF ~session.expiring
       THEN [session EXCEPT !.callers[c] =
                               [pc |-> "has_token", token |-> session.token]]
       ELSE IF session.inFlight > 0
       THEN [session EXCEPT !.callers[c].pc = "awaiting"]
       ELSE [session EXCEPT !.inFlight = @ + 1, !.issued = @ + 1,
                            !.callers[c].pc = "refreshing"]
  /\ lastEvent' = "ensure_valid_token"
  /\ UNCHANGED <<appVars, scanner>>

\* the refresh of caller c returned a new token: it becomes the cached token
\* and every caller that waited for the refresh proceeds with it
RefreshResolve(c) ==
  /\ session.callers[c].pc = "refreshing"
  /\ session' =
       [session EXCEPT
          !.token = @ + 1, !.expiring = FALSE, !.inFlight = @ - 1,
          !.callers = [d \in Callers |->
                         IF d = c \/ session.callers[d].pc = "awaiting"
                         THEN [pc |-> "has_token", token |-> session.token + 1]
                         ELSE session.callers[d]]]
  /\ lastEvent' = "refresh_ok"
  /\ UNCHANGED <<appVars, scanner>>

\* the refresh of caller c failed: every caller that waited for it fails
\* with an AuthError
RefreshReject(c) ==
  /\ session.callers[c].pc = "refreshing"
  /\ session' =
       [session EXCEPT
          !.inFlight = @ - 1,
          !.callers = [d \in Callers |->
                         IF d = c \/ session.callers[d].pc = "awaiting"
                         THEN [pc |-> "failed", token |-> 0]
                         ELSE session.callers[d]]]
  /\ lastEvent' = "refresh_err"
  /\ UNCHANGED <<appVars, scanner>>

\* the operation of caller c has ended, with its network call or with the
\* AuthError
OperationEnds(c) ==
  /\ session.callers[c].pc \in {"has_token", "failed"}
  /\ session' = [session EXCEPT !.callers[c] = [pc |-> "idle", token |-> 0]]
  /\ lastEvent' = "operation_ends"
  /\ UNCHANGED <<appVars, scanner>>

InitSession ==
  /\ InitApp
  /\ scanner = ScannerIdle
  /\ session = SessionIdle

NextSession ==
  \/ TokenNearsExpiry
  \/ \E c \in Callers : EnsureValidToken(c)
  \/ \E c \in Callers : RefreshResolve(c)
  \/ \E c \in Callers : RefreshReject(c)
  \/ \E c \in Callers : OperationEnds(c)

SpecSession == InitSession /\ [][NextSession]_vars

\* ------------------------------------------------------------------------
\* Properties
\* ------------------------------------------------------------------------
\* the step that led to this state ended a backup batch
BatchEnded ==
  /\ lastEvent \in {"upload_start", "create_err", "upload_ok", "upload_err"}
  /\ up.pc = "idle"
  /\ up.done

\* the step that led to this state requested create_game_profile
\* respectively upload_saves for game up.i
BatchRunning == up.pc \in {"await_create", "await_upload"}

\* number of games of the batch with the given outcomes
Count(outcomes, which) ==
  Cardinality({k \in DOMAIN outcomes : outcomes[k] \in which})

\* C1: a failure for one game never aborts the batch: while a batch runs,
\* game i is in work exactly when the i-1 games before it have their outcome,
\* whatever these outcomes are; a game is uploaded as soon as it has a
\* profile; a batch ends only when every game has its outcome; and a batch
\* of three games whose second upload fails ends with success_count = 2 and
\* failure_count = 1, the first and the third game uploaded.
C1_FailureIsolation ==
  /\ BatchRunning =>
       /\ up.i \in 1..Len(up.games)
       /\ Len(up.outcomes) = up.i - 1
       /\ up.pc = "await_upload" => up.profileId # 0
       /\ up.pc = "await_create" => FindProfile(up.snap, up.games[up.i]) = 0
  /\ BatchEnded =>
       /\ Len(up.outcomes) = Len(up.games)
       /\ (/\ Len(up.games) = 3
           /\ up.outcomes[2] = "upload failed"
           /\ up.outcomes[1] # "upload failed" /\ up.outcomes[3] # "upload failed"
           /\ Count(up.outcomes, {"create failed"}) = 0)
          => /\ up.success = 2
             /\ up.fail = 1
             /\ up.outcomes = <<"uploaded", "upload failed", "uploaded">>

\* C1 witness: a batch of three games has ended, the second upload failed,
\* the first and the third game were uploaded
C1_Witness ==
  /\ BatchEnded
  /\ Len(up.games) = 3
  /\ up.outcomes = <<"uploaded", "upload failed", "uploaded">>
  /\ up.success = 2 /\ up.fail = 1

\* C2: when a batch ends, success_count + failure_count is the number of
\* games that were selected when it started, a game counting as a success
\* exactly when its upload succeeded and as a failure when its profile
\* creation or its upload failed.
C2_CountsCoverSelection ==
  BatchEnded =>
    /\ up.success + up.fail = up.nsel
    /\ up.success = Count(up.outcomes, {"uploaded"})
    /\ up.fail = Count(up.outcomes, {"create failed", "upload failed"})

\* C3: within one session no game name, compared ignoring case, gets a
\* second profile created: the profiles the service created since the
\* session began have pairwise different names.
C3_NoDuplicateProfile ==
  \A j, k \in DOMAIN srvProfiles :
    (sessionStart < j /\ j < k) =>
      toLowerCase(srvProfiles[j].name) # toLowerCase(srvProfiles[k].name)

\* a step requests create_game_profile for game up'.i
CreateRequested ==
  /\ up'.pc = "await_create"
  /\ up.pc # "await_create" \/ up'.i # up.i

\* a step requests upload_saves for game up'.i
UploadRequested ==
  /\ up'.pc = "await_upload"
  /\ up.pc # "await_upload" \/ up'.i # up.i

\* C4: create_game_profile is requested only if no profile of the cache has
\* the game's name ignoring case, and upload_saves is requested with the id
\* of the matching profile of the cache or, when none matched, with the id
\* the create_game_profile call of this game returned.
C4_ResolveBeforeUpload ==
  [][/\ CreateRequested =>
          FindProfile(gameProfiles, up'.games[up'.i]) = 0
     /\ UploadRequested =>
          IF up.pc = "await_create"
          THEN /\ Len(srvProfiles') = Len(srvProfiles) + 1
               /\ up'.profileId = srvProfiles'[Len(srvProfiles')].id
          ELSE LET k == FindProfile(gameProfiles, up'.games[up'.i])
               IN  k # 0 /\ up'.profileId = gameProfiles[k].id
    ]_vars

\* the batch goes on after the outcome of game i: with the next game, or to
\* its end when game i was the last one
Proceeds(i) ==
  IF i < Len(up.games)
  THEN up'.i = i + 1 /\ up'.pc \in {"await_create", "await_upload"}
  ELSE up'.pc = "idle" /\ up'.done

\* C5: when create_game_profile fails, the game counts as failed, no upload
\* is requested for it, the cache is left as it is and the batch goes on
\* with the next game; when it succeeds, the new profile (the game's name,
\* platform "PC") is appended to the cache in the step that requests the
\* upload, and a failed upload leaves the cache as it is.
C5_CreateFailure ==
  [][/\ lastEvent' = "create_err" =>
          /\ up'.fail = up.fail + 1
          /\ up'.success = up.success
          /\ up'.outcomes = Append(up.outcomes, "create failed")
          /\ gameProfiles' = gameProfiles
          /\ Proceeds(up.i)
     /\ lastEvent' = "create_ok" =>
          /\ Len(gameProfiles') = Len(gameProfiles) + 1
          /\ SubSeq(gameProfiles', 1, Len(gameProfiles)) = gameProfiles
          /\ gameProfiles'[Len(gameProfiles')].name = up.games[up.i]
          /\ gameProfiles'[Len(gameProfiles')].platform = "PC"
          /\ up'.pc = "await_upload" /\ up'.i = up.i
          /\ up'.profileId = gameProfiles'[Len(gameProfiles')].id
     /\ lastEvent' = "upload_err" => gameProfiles' = gameProfiles
    ]_vars

\* C5 witness: the profile creation of the first game of a batch has
\* failed and the batch is at work on its second game
C5_Witness ==
  /\ lastEvent = "create_err"
  /\ BatchRunning
  /\ up.i = 2
  /\ up.outcomes = <<"create failed">>

\* C6: when a batch completes, the selection is empty, whatever the mix of
\* successes and failures.
C6_SelectionCleared ==
  BatchEnded => selectedGames = {}

\* C6 witness: a batch has completed in which every game failed
C6_Witness ==
  /\ BatchEnded
  /\ up.games # <<>>
  /\ up.success = 0
  /\ up.fail = Len(up.games)

\* C7: while signed in, every change of the profile cache other than by
\* logout keeps all the entries the cache had.
C7_CacheAppendOnly ==
  [][(/\ IsAuthenticated(authStatus)
      /\ lastEvent' \notin {"logout_ok", "logout_ok_again"})
     => \A p \in Range(gameProfiles) : p \in Range(gameProfiles')
    ]_vars

\* C8: a failed login leaves the auth state as it was, loads no game
\* profiles, surfaces an error and clears the logging-in flag.
C8_LoginFailure ==
  [][lastEvent' = "login_err" =>
       /\ authStatus' = authStatus
       /\ srvAuthed' = srvAuthed
       /\ loads' = loads
       /\ gameProfiles' = gameProfiles
       /\ error' # NoMsg
       /\ isLoggingIn' = FALSE
    ]_vars

\* C8 witness: a login has failed; the state is unauthenticated, the error
\* is shown and the logging-in flag is cleared
C8_Witness ==
  /\ lastEvent = "login_err"
  /\ ~IsAuthenticated(authStatus)
  /\ error = Msg("login failed", 0)
  /\ ~isLoggingIn

\* C9: the auth state starts unauthenticated, and from a successful login
\* until logout it is authenticated.
C9_AuthLifecycle ==
  /\ ~mounted => authStatus = <<>>
  /\ loggedIn => IsAuthenticated(authStatus)

\* C10: a successful logout leaves the auth state unauthenticated with null
\* fields and detectedGames, selectedGames and gameProfiles empty; a logout
\* performed in that state leaves it as it is; a failed logout clears none
\* of them and surfaces the error.
C10_Logout ==
  [][/\ lastEvent' \in {"logout_ok", "logout_ok_again"} =>
          /\ authStatus' = <<AuthStatus(FALSE, Null, Null, Null)>>
          /\ detectedGames' = <<>>
          /\ selectedGames' = {}
          /\ gameProfiles' = <<>>
     /\ lastEvent' = "logout_ok_again" =>
          UNCHANGED <<authStatus, detectedGames, selectedGames, gameProfiles>>
     /\ lastEvent' = "logout_err" =>
          /\ UNCHANGED <<authStatus, detectedGames, selectedGames, gameProfiles>>
          /\ error' # NoMsg
    ]_vars

\* C10 witness: a second logout has succeeded in the state the first one left
C10_Witness ==
  /\ lastEvent = "logout_ok_again"
  /\ LoggedOutState

\* C11: the start-up check is a soft fail: when get_auth_status answers, the
\* component takes the answer as its auth status, so that it shows the
\* authenticated view exactly when the answer says is_authenticated; an
\* answer that is not authenticated (no valid token is held) surfaces no
\* error, requests no game profiles and leaves the profile cache alone; the
\* profiles are requested exactly when the answer is authenticated.
C11_SoftFailRestore ==
  [][lastEvent' = "check_auth_ok" =>
       /\ authStatus' = <<authCheck.status>>
       /\ AuthenticatedView' <=> authCheck.status.is_authenticated
       /\ ~authCheck.status.is_authenticated =>
            /\ error' = error
            /\ loads' = loads
            /\ gameProfiles' = gameProfiles
       /\ authCheck.status.is_authenticated =>
            /\ loads' = Append(loads, [pc |-> "sent", profiles |-> <<>>])
            /\ error' = error]_vars

\* C11 witness: the start-up check has answered that no valid token is held:
\* the login view is shown, no error is set and no profiles are requested
C11_Witness ==
  /\ lastEvent = "check_auth_ok"
  /\ authStatus = <<LoggedOutStatus>>
  /\ ~srvAuthed
  /\ error = NoMsg
  /\ loads = <<>>

\* C12: no remote call fails silently: in the state a failed get_auth_status,
\* login, logout, scan_games or get_game_profiles call leaves behind, and in
\* the state a backup batch with a failed create_game_profile or upload_saves
\* call ends in, the error shown to the user is set.
C12_FailuresSurfaced ==
  /\ lastEvent \in {"check_auth_err", "login_err", "logout_err", "scan_err",
                    "load_profiles_err"}
       => error # NoMsg
  /\ BatchEnded /\ up.fail > 0 => error # NoMsg

\* number of callers at the given positions of ensure_valid_token
CallersAt(pcs) == Cardinality({c \in Callers : session.callers[c].pc \in pcs})

\* C13: the token refresh is serialized: at most one refresh is in flight, it
\* belongs to exactly one caller, and a caller waits only for a refresh that
\* is in flight; a caller that finds the cached token near expiry issues a
\* refresh call only when none is in flight; and when the refresh returns,
\* one new token is cached and every caller that waited for it, the issuer
\* included, proceeds with that token, no further refresh call being issued.
C13_RefreshSerialized ==
  /\ [](/\ session.inFlight <= 1
        /\ CallersAt({"refreshing"}) = session.inFlight
        /\ CallersAt({"awaiting"}) > 0 => session.inFlight = 1)
  /\ [][/\ lastEvent' = "ensure_valid_token" =>
             session'.issued =
               IF session.expiring /\ session.inFlight = 0
               THEN session.issued + 1 ELSE session.issued
        /\ lastEvent' = "refresh_ok" =>
             /\ session'.token = session.token + 1
             /\ session'.issued = session.issued
             /\ \A c \in Callers :
                  Refreshed(c) =>
                    session'.callers[c] =
                      [pc |-> "has_token", token |-> session'.token]]_vars

\* C13 witness: two operations asked for the token while it was near expiry,
\* one refresh call was issued in all, it has returned and both operations
\* hold the token it produced
C13_Witness ==
  /\ lastEvent = "refresh_ok"
  /\ session.issued = 1
  /\ session.token = 1
  /\ \A c \in {1, 2} : session.callers[c] = [pc |-> "has_token", token |-> 1]

\* the manifest entry has no pattern that resolves to an existing path
NoExistingPath(game_name, files) ==
  \A j \in DOMAIN path_patterns(game_name) :
    path_patterns(game_name)[j] \notin files

\* C14: the exclusion rule of the scan: every game of a scan_games result has
\* at least one path with exists = TRUE, the names of the result are one of
\* the lists handleScan can receive, and a manifest entry none of whose
\* patterns resolves to an existing path at the time of the scan is not in
\* the result.
C14_ExclusionRule ==
  /\ [](/\ \A k \in DOMAIN scanner.result :
             \E j \in DOMAIN scanner.result[k].paths :
               scanner.result[k].paths[j].exists
        /\ GameNames(scanner.result) \in ScanResults)
  /\ [][lastEvent' = "scan_games" =>
          \A g \in Range(Manifest) :
            NoExistingPath(g, scanner.files) =>
              g \notin Range(GameNames(scanner'.result))]_vars

\* C14 witness: a scan has run while only one of the two save paths of Doom
\* existed: Doom is detected with its absent path retained, the two games
\* without an existing path are not in the result
C14_Witness ==
  /\ lastEvent = "scan_games"
  /\ scanner.files = {"appdata/Doom"}
  /\ GameNames(scanner.result) = <<Doom>>
  /\ scanner.result[1].paths[1].exists
  /\ ~scanner.result[1].paths[2].exists

\* the step that led to this state delivered the result of a scan_games call
ScanDelivered == lastEvent \in {"scan_ok", "scan_ok_stale"}

\* C15: handleScan replaces the list of detected games: the step that
\* delivers a scan_games result makes detectedGames that result, whatever was
\* listed before, counts it in the success message when it is not empty,
\* leaves selectedGames and gameProfiles alone and clears isScanning; the
\* step that delivers a scan_games failure leaves detectedGames,
\* selectedGames and gameProfiles unchanged, sets the error and clears
\* isScanning.
C15_ScanReplaces ==
  [][/\ ScanDelivered' =>
          /\ detectedGames' = scanResult'
          /\ scanResult' # <<>> =>
               successMessage' =
                 Msg("Found games with save files!", Len(scanResult'))
          /\ selectedGames' = selectedGames
          /\ gameProfiles' = gameProfiles
          /\ ~isScanning'
     /\ lastEvent' = "scan_err" =>
          /\ detectedGames' = detectedGames
          /\ selectedGames' = selectedGames
          /\ gameProfiles' = gameProfiles
          /\ error' # NoMsg
          /\ ~isScanning']_vars

\* C15 witness: a scan has just delivered the single game Hades while Doom,
\* a game of the previous list, is still selected: the previous list is gone
C15_Witness ==
  /\ lastEvent = "scan_ok"
  /\ scanResult = <<Hades>>
  /\ detectedGames = <<Hades>>
  /\ Doom \in selectedGames

\* no two profiles of the list have names that are equal ignoring case
NoCaseDuplicates(profiles) ==
  \A i, j \in DOMAIN profiles :
    i # j => toLowerCase(profiles[i].name) # toLowerCase(profiles[j].name)

\* C16: the profile cache is keyed by case-insensitive name: a cache without
\* two names equal ignoring case stays so in every step other than the
\* delivery of a get_game_profiles list, and the delivery of a list without
\* such names leaves the cache without them; the backup of two detected
\* games whose names differ only in letter case is such a step.
C16_CaseInsensitiveCache ==
  [][NoCaseDuplicates(gameProfiles) /\ lastEvent' # "load_profiles_ok"
       => NoCaseDuplicates(gameProfiles')]_vars

\* no scan, login or backup is running and no busy flag is set
Quiescent ==
  /\ scans = <<>> /\ ~isScanning
  /\ ~loginCall /\ ~isLoggingIn
  /\ up.pc = "idle" /\ ~isUploading

\* C17: scan, backup and login set their busy flag in the step that issues
\* their first remote call and clear it in the step that ends them, on
\* success and on failure: a started scan or login has its flag set and its
\* call outstanding, a reply to a scan or a login leaves the flag cleared,
\* a batch is at a remote call only with isUploading set and ends with it
\* cleared; and when every remote call returns or fails, every started
\* scan, login and batch ends and every busy flag returns to FALSE: a run,
\* which has finitely many user inputs, ends with no operation outstanding
\* and no busy flag set.
C17_BusyFlags ==
  /\ [][/\ lastEvent' \in {"scan_start", "scan_trigger"} =>
             isScanning' /\ Len(scans') = Len(scans) + 1
        /\ lastEvent' \in {"scan_ok", "scan_ok_stale", "scan_err"} =>
             ~isScanning' /\ Len(scans') = Len(scans) - 1
        /\ lastEvent' = "login_start" => isLoggingIn' /\ loginCall'
        /\ lastEvent' \in {"login_ok", "login_err"} =>
             ~isLoggingIn' /\ ~loginCall'
        /\ BatchRunning' => isUploading'
        /\ BatchEnded' => ~isUploading']_vars
  /\ [](loginCall <=> isLoggingIn)
  /\ [](BatchRunning <=> isUploading)
  /\ [](isScanning => scans # <<>>)
  /\ <>[]Quiescent

\* C17 witness: a scan has failed and a backup batch with a failed upload has
\* ended: no call is outstanding and both busy flags are cleared
C17_Witness ==
  /\ lastEvent = "scan_err"
  /\ scans = <<>> /\ ~isScanning
  /\ up.done /\ up.fail > 0 /\ ~isUploading

\* C18: handleUpload called with an empty selection only sets the error that
\* asks to select a game: no create_game_profile or upload_saves call is
\* issued (the batch position and the profiles of the service are
\* unchanged), and isUploading, selectedGames, detectedGames and
\* gameProfiles are left as they were.
C18_EmptySelection ==
  [][lastEvent' = "upload_nothing_selected" =>
       /\ error' = Msg("Please select at least one game to backup", 0)
       /\ UNCHANGED <<isUploading, selectedGames, detectedGames, gameProfiles,
                      up, srvProfiles>>]_vars

\* C18 witness: handleUpload has been called with games listed and none
\* selected: the error is shown and no batch runs
C18_Witness ==
  /\ lastEvent = "upload_nothing_selected"
  /\ detectedGames # <<>>
  /\ selectedGames = {}
  /\ error = Msg("Please select at least one game to backup", 0)
  /\ up.pc = "idle" /\ ~up.done /\ ~isUploading

\* C19: the selection is a subset of the detected games, so that the number
\* on "Backup Selected (n)" is the number of games a backup would process.
C19_SelectionWithinDetected ==
  /\ selectedGames \subseteq Range(detectedGames)
  /\ Cardinality(selectedGames)
       = Len(FilterSelected(detectedGames, selectedGames))

\* C20: isScanning is set exactly while a scan_games call is outstanding, at
\* most one scan_games call is outstanding, and when a delivered result
\* leaves no scan outstanding it is the result of the scan started last.
C20_OneScanAtATime ==
  /\ isScanning <=> scans # <<>>
  /\ Len(scans) <= 1
  /\ ScanDelivered /\ scans = <<>> => lastEvent = "scan_ok"

\* the component is in the state a signed-in session starts from, the
\* history of the run apart
SignedInStart ==
  /\ authStatus = <<AuthedStatus>>
  /\ detectedGames = Manifest
  /\ selectedGames = {}
  /\ gameProfiles = srvProfiles
  /\ ~isScanning /\ ~isUploading /\ ~isLoggingIn
  /\ activeTab = "games"
  /\ error = NoMsg /\ successMessage = NoMsg
  /\ sessionCookie = <<>> /\ deviceName \in Hostnames
  /\ ~showLoginForm /\ mounted
  /\ authCheck = [pc |-> "done", status |-> LoggedOutStatus]
  /\ loads = <<>> /\ ~loginCall /\ logouts = 0 /\ scans = <<>>
  /\ up = UpIdle
  /\ srvAuthed /\ ~loggedIn
  /\ sessionStart = Len(srvProfiles)
  /\ lastEvent = "ui" /\ scanResult = <<>>

\* the step requests create_game_profile or upload_saves for a game
BatchRequest ==
  /\ up'.pc \in {"await_create", "await_upload"}
  /\ <<up'.pc, up'.i>> # <<up.pc, up.i>>

\* C21: the authenticated operations are requested only while signed in: a
\* step that requests create_game_profile, upload_saves or get_game_profiles
\* leaves the component with an authenticated auth status, and a profile is
\* appended to the cache only while the auth status is authenticated; so a
\* batch that runs when a logout completes requests nothing more.
C21_SignedInRequests ==
  [][/\ BatchRequest => AuthenticatedView'
     /\ Len(loads') > Len(loads) => AuthenticatedView'
     /\ lastEvent' = "create_ok" => AuthenticatedView']_vars

====
